---- MODULE Spec2Model ----
(***************************************************************************)
(* Model of the OOXML-level core of doc_convertor:                         *)
(*   - utils/docx_split.py: DocxSplitProcessor (cover / content split)     *)
(*   - bf/docx_header_footer_replace.py: header/footer extraction and      *)
(*     re-injection.                                                       *)
(*                                                                         *)
(* Conventions.                                                            *)
(*   A string is a sequence of characters; a character is a TLA+ string.   *)
(*   The two characters of the default TOC title are written "mu" "lu".    *)
(*   The main document XML is a sequence of markup tokens; an offset into  *)
(*   the XML text is an offset into that sequence (0-based, as in Python), *)
(*   so doc[a:b] is Slice(doc, a, b).                                      *)
(***************************************************************************)
EXTENDS Integers, Sequences, FiniteSets, TLC

VARIABLES
    doc,        \* text of word/document.xml of the source (token sequence)
    keywords,   \* toc_keywords handed to split_document_for_conversion
    srcNames,   \* archive names of the entries of the source container
    pc,         \* position of split_document_for_conversion
    cover,      \* what _process_cover_document computed and wrote
    content,    \* what _process_content_no_toc_document computed and wrote
    result,     \* return value of split_document_for_conversion
    target,     \* the header/footer part worked on, as parsed
    hfpc,       \* position of the header/footer operations
    firstText,  \* extract_formatted_content(target)
    injected,   \* the new_content handed to replace_formatted_content
    replaced,   \* the part as replace_formatted_content leaves it
    secondText, \* extract_formatted_content(replaced)
    hfResult,   \* what extract_header_footer_content returned or raised
    scanpc,     \* position inside _find_split_point_content_no_toc
    toc_start,  \* its local toc_start
    toc_end,    \* its local toc_end
    scan_i,     \* the index i of its first loop after toc_start
    consecutive_numbered_lines,     \* its local counter
    disk,       \* the documents on disk, by path
    disk0,      \* the documents on disk before replace_header_footer_content
    txArgs,     \* the arguments of replace_header_footer_content
    txpc,       \* position of replace_header_footer_content
    source_content,     \* its local source_content
    txResult,   \* its return value
    unwritable  \* the output paths at which writing a container fails

splitVars == <<doc, keywords, srcNames, pc, cover, content, result>>
hfVars == <<target, hfpc, firstText, injected, replaced, secondText, hfResult>>
scanVars == <<scanpc, toc_start, toc_end, scan_i, consecutive_numbered_lines>>
txVars == <<disk, disk0, txArgs, txpc, source_content, txResult>>
envVars == <<unwritable>>
vars == <<splitVars, hfVars, scanVars, txVars, envVars>>

----------------------------------------------------------------------------
(* Bounds of the model *)

\* longest enumerated body, in top-level items
MaxElems == 3
\* most runs in an enumerated header/footer paragraph
MaxRuns == 2

----------------------------------------------------------------------------
(* Program constants *)

MinNumberedLines == 3
LongTextLen == 100
SearchWindow == 50
DefaultTocSpan == 20
DefaultDivisor == 5
DefaultMax == 20
FallbackDivisor == 4

----------------------------------------------------------------------------
(* Generic helpers: Python slicing, min, strings *)

Min(a, b) == IF a <= b THEN a ELSE b

\* Python s[a:b] for 0 <= a, b (b clamped to the length)
Slice(s, a, b) == SubSeq(s, a + 1, Min(b, Len(s)))

\* Python s[:-1]
DropLast(s) == SubSeq(s, 1, Len(s) - 1)

RECURSIVE Concat(_)
Concat(ss) == IF ss = <<>> THEN <<>> ELSE Head(ss) \o Concat(Tail(ss))

Whitespace == {" ", "\t", "\n"}
Digits == {"0", "1", "2", "3", "4", "5", "6", "7", "8", "9"}

RECURSIVE LStrip(_)
LStrip(s) == IF s /= <<>> /\ Head(s) \in Whitespace THEN LStrip(Tail(s)) ELSE s

RECURSIVE RStrip(_)
RStrip(s) ==
    IF s /= <<>> /\ s[Len(s)] \in Whitespace THEN RStrip(DropLast(s)) ELSE s

\* str.strip()
Strip(s) == RStrip(LStrip(s))

\* Python "kw in s"
Contains(s, kw) ==
    \E i \in 0..(Len(s) - Len(kw)) : SubSeq(s, i + 1, i + Len(kw)) = kw

----------------------------------------------------------------------------
(* Sample texts of paragraphs.  A text node of the document names its text; *)
(* Chars gives the characters.                                              *)

TextIds == {"Cover", "Toc", "Intro1", "BodyText", "Empty", "Long", "Cell"}

Chars(id) ==
    CASE id = "Cover" -> <<"C", "o", "v", "e", "r">>
      [] id = "Toc" -> <<"mu", "lu">>
      [] id = "Intro1" -> <<"I", "n", "t", "r", "o", ".", ".", ".", "1">>
      [] id = "BodyText" -> <<"B", "o", "d", "y", " ", "t", "e", "x", "t">>
      [] id = "Empty" -> <<>>
      [] id = "Long" -> [i \in 1..(LongTextLen + 1) |-> "x"]
      [] id = "Cell" -> <<" ", "mu", "lu", " ">>

----------------------------------------------------------------------------
(* Markup tokens of word/document.xml *)

Tok(tag) == [tag |-> tag, text |-> "Empty"]
\* <w:t>text</w:t>
TextTok(id) == [tag |-> "t", text |-> id]

(* Top-level items a body is built from, and their markup *)
P(id) == <<Tok("p"), TextTok(id), Tok("/p")>>
Table == <<Tok("tbl"), Tok("p"), TextTok("Cell"), Tok("/p"), Tok("/tbl")>>
SectionBreak == <<Tok("sectPr"), Tok("/sectPr")>>
BookmarkStart == <<Tok("bookmarkStart")>>
\* a structured document tag (content control) around body items
Sdt(items) == <<Tok("sdt")>> \o items \o <<Tok("/sdt")>>
\* a table whose cell holds another table
NestedTable == <<Tok("tbl")>> \o Table \o P("Cover") \o <<Tok("/tbl")>>

Items ==
    {P("Cover"), P("Toc"), P("Intro1"), P("Empty"), P("Long"),
     Table, SectionBreak, BookmarkStart}

\* the document around a body; variant says which body markers are present
BodyVariants == {"ok", "noOpen", "noClose"}

BuildDoc(body, variant) ==
    <<Tok("document")>>
        \o (IF variant = "noOpen" THEN <<>> ELSE <<Tok("body")>>)
        \o body
        \o (IF variant = "noClose" THEN <<>> ELSE <<Tok("/body")>>)
        \o <<Tok("/document")>>

Bodies == UNION {{Concat(its) : its \in [1..n -> Items]} : n \in 0..MaxElems}

----------------------------------------------------------------------------
(* Body element indexer: the re.finditer loop over combined_pattern that    *)
(* every locator and slicer of DocxSplitProcessor repeats.                  *)

\* the closing tag a pattern '<w:X[^>]*>.*?</w:X>' looks for; "" for the
\* two self-closing bookmark patterns
ClosingTag(tag) ==
    CASE tag = "p" -> "/p"
      [] tag = "tbl" -> "/tbl"
      [] tag = "sectPr" -> "/sectPr"
      [] OTHER -> ""

\* 1-based index of the first token with the given tag after index i, or 0
RECURSIVE FirstAfter(_, _, _)
FirstAfter(d, tag, i) ==
    IF i >= Len(d) THEN 0
    ELSE IF d[i + 1].tag = tag THEN i + 1
    ELSE FirstAfter(d, tag, i + 1)

\* 1-based index of the last token of the match that starts at token i, or 0
\* when no alternative of combined_pattern matches there.  '.*?' with
\* re.DOTALL stops at the first closing tag, whatever is nested before it.
MatchEnd(d, i) ==
    IF d[i].tag \in {"p", "tbl", "sectPr"}
    THEN FirstAfter(d, ClosingTag(d[i].tag), i)
    ELSE IF d[i].tag \in {"bookmarkStart", "bookmarkEnd"} THEN i
    ELSE 0

ElementType(tag) ==
    CASE tag = "p" -> "paragraph"
      [] tag = "tbl" -> "table"
      [] tag = "sectPr" -> "section"
      [] OTHER -> "other"

\* elements found scanning from token i on: leftmost first, non-overlapping
RECURSIVE ScanElements(_, _)
ScanElements(d, i) ==
    IF i > Len(d) THEN <<>>
    ELSE LET e == MatchEnd(d, i)
         IN IF e = 0 THEN ScanElements(d, i + 1)
            ELSE <<[type |-> ElementType(d[i].tag),
                    start |-> i - 1,
                    end |-> e,
                    content |-> SubSeq(d, i, e)]>>
                 \o ScanElements(d, e + 1)

IndexElements(d) == ScanElements(d, 1)

\* ''.join(re.findall(r'<w:t[^>]*>([^<]*)</w:t>', content)).strip()
RECURSIVE JoinTexts(_)
JoinTexts(c) ==
    IF c = <<>> THEN <<>>
    ELSE (IF Head(c).tag = "t" THEN Chars(Head(c).text) ELSE <<>>)
         \o JoinTexts(Tail(c))

ParagraphText(element) == Strip(JoinTexts(element.content))

----------------------------------------------------------------------------
(* _has_page_number_pattern *)

\* number of digits the text ends with
RECURSIVE TrailingDigits(_)
TrailingDigits(s) ==
    IF s /= <<>> /\ s[Len(s)] \in Digits THEN 1 + TrailingDigits(DropLast(s))
    ELSE 0

\* number of characters of cs the text ends with
RECURSIVE TrailingIn(_, _)
TrailingIn(s, cs) ==
    IF s /= <<>> /\ s[Len(s)] \in cs THEN 1 + TrailingIn(DropLast(s), cs)
    ELSE 0

\* what precedes the final run of digits
BeforeDigits(s) == SubSeq(s, 1, Len(s) - TrailingDigits(s))
\* the same with the white space before the digits removed ('\s*')
BeforeSpaces(s) ==
    SubSeq(BeforeDigits(s), 1,
           Len(BeforeDigits(s)) - TrailingIn(BeforeDigits(s), Whitespace))

has_page_number_pattern(s) ==
    IF s = <<>> THEN FALSE
    ELSE \/ /\ TrailingDigits(s) >= 1                 \* r'\.{2,}\s*\d+$'
            /\ TrailingIn(BeforeSpaces(s), {"."}) >= 2
         \/ /\ TrailingDigits(s) >= 1                 \* r'\s+\d+$'
            /\ TrailingIn(BeforeDigits(s), Whitespace) >= 1
         \/ TrailingDigits(s) >= 1                    \* r'\d+$'
         \/ /\ TrailingDigits(s) >= 1                 \* r'...+\s*\d+$' (U+2026)
            /\ TrailingIn(BeforeSpaces(s), {"ellipsis"}) >= 1

----------------------------------------------------------------------------
(* TOC / split locators *)

\* any(keyword in paragraph_text for keyword in toc_keywords)
HasKeyword(element, kws) ==
    \E k \in 1..Len(kws) : Contains(ParagraphText(element), kws[k])

\* the loop "for i, element in enumerate(elements)" looking for toc_start:
\* index of the first paragraph from index i on that holds a keyword, or -1
\* mutant: any element that holds a keyword is taken
RECURSIVE FindTocStart_AnyElement(_, _, _)
FindTocStart_AnyElement(els, kws, i) ==
    IF i >= Len(els) THEN -1
    ELSE IF HasKeyword(els[i + 1], kws) THEN i
    ELSE FindTocStart_AnyElement(els, kws, i + 1)

RECURSIVE FindTocStart(_, _, _)
FindTocStart(els, kws, i) ==
    IF i >= Len(els) THEN -1
    ELSE IF els[i + 1].type = "paragraph" /\ HasKeyword(els[i + 1], kws) THEN i
    ELSE FindTocStart(els, kws, i + 1)

find_split_point_cover(d, kws) == FindTocStart(IndexElements(d), kws, 0)

\* mutant: every table ends the TOC, whatever the counter
RECURSIVE ScanTocEnd_TableStops(_, _, _)
ScanTocEnd_TableStops(els, i, n) ==
    IF i >= Len(els) THEN -1
    ELSE LET element == els[i + 1]
             text == ParagraphText(element)
         IN IF element.type = "paragraph"
            THEN IF has_page_number_pattern(text)
                 THEN ScanTocEnd_TableStops(els, i + 1, n + 1)
                 ELSE IF text = <<>> THEN ScanTocEnd_TableStops(els, i + 1, n)
                 ELSE IF n >= MinNumberedLines THEN i - 1
                 ELSE IF Len(text) > LongTextLen /\ ~has_page_number_pattern(text)
                      THEN i - 1
                 ELSE ScanTocEnd_TableStops(els, i + 1, 0)
            ELSE IF element.type = "table" THEN i - 1
            ELSE ScanTocEnd_TableStops(els, i + 1, n)

\* the first loop after toc_start, at index i with consecutive_numbered_lines
\* = n: the toc_end it breaks with, or -1 when it runs off the end
RECURSIVE ScanTocEnd(_, _, _)
ScanTocEnd(els, i, n) ==
    IF i >= Len(els) THEN -1
    ELSE LET element == els[i + 1]
             text == ParagraphText(element)
         IN IF element.type = "paragraph"
            THEN IF has_page_number_pattern(text) THEN ScanTocEnd(els, i + 1, n + 1)
                 ELSE IF text = <<>> THEN ScanTocEnd(els, i + 1, n)
                 ELSE IF n >= MinNumberedLines THEN i - 1
                 ELSE IF Len(text) > LongTextLen /\ ~has_page_number_pattern(text)
                      THEN i - 1
                 ELSE ScanTocEnd(els, i + 1, 0)
            ELSE IF element.type = "table"
            THEN IF n > 0 THEN ScanTocEnd(els, i + 1, n) ELSE i - 1
            ELSE ScanTocEnd(els, i + 1, n)

\* the second, "heuristic" loop over range(toc_start + 1, search_limit)
RECURSIVE HeuristicTocEnd(_, _, _)
HeuristicTocEnd(els, i, limit) ==
    IF i >= limit THEN -1
    ELSE LET text == ParagraphText(els[i + 1])
         IN IF /\ els[i + 1].type = "paragraph"
               /\ Len(text) > LongTextLen
               /\ ~has_page_number_pattern(text)
            THEN i - 1
            ELSE HeuristicTocEnd(els, i + 1, limit)

\* mutant: the default toc_end without the clamp to the last index
DefaultTocEnd_Unclamped(els, tocStart) == tocStart + DefaultTocSpan

\* toc_end once toc_start is known
DefaultTocEnd(els, tocStart) == Min(tocStart + DefaultTocSpan, Len(els) - 1)

TocEndFrom(els, tocStart) ==
    LET first == ScanTocEnd(els, tocStart + 1, 0)
        second == HeuristicTocEnd(els, tocStart + 1,
                                  Min(tocStart + SearchWindow, Len(els)))
    IN IF first /= -1 THEN first
       ELSE IF second /= -1 THEN second
       ELSE DefaultTocEnd(els, tocStart)

find_split_point_content_no_toc(d, kws) ==
    LET els == IndexElements(d)
        tocStart == FindTocStart(els, kws, 0)
    IN IF tocStart = -1 THEN -1 ELSE TocEndFrom(els, tocStart)

\* mutant: the quarter of the elements, as the slicers' own fallback takes
get_default_split_point_Quarter(d) ==
    Min(DefaultMax, Len(IndexElements(d)) \div FallbackDivisor)

get_default_split_point(d) ==
    Min(DefaultMax, Len(IndexElements(d)) \div DefaultDivisor)

----------------------------------------------------------------------------
(* Body slicer *)

\* offset of the first token with the given tag (re.search(...).start(),
\* str.find), or -1
RECURSIVE FindTag(_, _, _)
FindTag(d, tag, i) ==
    IF i >= Len(d) THEN -1
    ELSE IF d[i + 1].tag = tag THEN i
    ELSE FindTag(d, tag, i + 1)

HasBodyMarkers(d) == FindTag(d, "body", 0) /= -1 /\ FindTag(d, "/body", 0) /= -1

\* "if split_point < 0 or split_point >= len(elements)": the split point used
EffectiveSplitPoint(els, splitPoint) ==
    IF splitPoint < 0 \/ splitPoint >= Len(els)
    THEN Min(Len(els) \div FallbackDivisor, DefaultMax)
    ELSE splitPoint

\* split_pos of the cover: the start of the element at the split point
CoverSplitPos(d, splitPoint) ==
    LET els == IndexElements(d)
        sp == EffectiveSplitPoint(els, splitPoint)
    IN IF sp < Len(els) THEN els[sp + 1].start
       ELSE IF els /= <<>> THEN els[Len(els)].end
       ELSE Len(d) \div 2

\* mutant: the content cut at the start of the element, as the cover is
ContentSplitPos_AtStart(d, splitPoint) ==
    LET els == IndexElements(d)
        sp == EffectiveSplitPoint(els, splitPoint)
    IN IF sp < Len(els) THEN els[sp + 1].start
       ELSE IF els /= <<>> THEN els[Len(els)].end
       ELSE Len(d) \div 2

\* split_pos of the content: the end of the element at the split point
ContentSplitPos(d, splitPoint) ==
    LET els == IndexElements(d)
        sp == EffectiveSplitPoint(els, splitPoint)
    IN IF sp < Len(els) THEN els[sp + 1].end
       ELSE IF els /= <<>> THEN els[Len(els)].end
       ELSE Len(d) \div 2

\* body_start_match.end() and body_end_match.start()
BodyStartEnd(d) == FindTag(d, "body", 0) + 1
BodyEndStart(d) == FindTag(d, "/body", 0)

\* split_pos clamped into the body, relative to the start of the body content
BodySplitPos(d, splitPos) ==
    LET clamped == IF splitPos < BodyStartEnd(d) THEN BodyStartEnd(d)
                   ELSE IF splitPos > BodyEndStart(d) THEN BodyEndStart(d)
                   ELSE splitPos
        rel == clamped - BodyStartEnd(d)
        bodyLen == BodyEndStart(d) - BodyStartEnd(d)
    IN IF rel < 0 THEN 0 ELSE IF rel > bodyLen THEN bodyLen ELSE rel

XmlHeader(d) == Slice(d, 0, BodyStartEnd(d))
XmlFooter(d) == Slice(d, BodyEndStart(d), Len(d))
BodyContent(d) == Slice(d, BodyStartEnd(d), BodyEndStart(d))

split_document_xml_cover(d, splitPoint) ==
    IF ~HasBodyMarkers(d)
    THEN Slice(d, 0, Len(d) \div 2) \o <<Tok("/body"), Tok("/document")>>
    ELSE XmlHeader(d)
         \o Slice(BodyContent(d), 0, BodySplitPos(d, CoverSplitPos(d, splitPoint)))
         \o XmlFooter(d)

split_document_xml_content_no_toc(d, splitPoint) ==
    IF ~HasBodyMarkers(d)
    THEN (IF FindTag(d, "body", 0) = -1 THEN DropLast(d)
          ELSE Slice(d, 0, FindTag(d, "body", 0)))
         \o <<Tok("body")>>
         \o Slice(d, Len(d) \div 2, Len(d))
    ELSE XmlHeader(d)
         \o Slice(BodyContent(d),
                  BodySplitPos(d, ContentSplitPos(d, splitPoint)),
                  Len(BodyContent(d)))
         \o XmlFooter(d)

----------------------------------------------------------------------------
(* Containers.  An archive name is its sequence of path segments; the data  *)
(* of a part is a token sequence (one opaque token for every part but the   *)
(* main document).                                                          *)

ContentTypes == <<"[Content_Types].xml">>
RootRels == <<"_rels", ".rels">>
DocumentXml == <<"word", "document.xml">>
DocumentRels == <<"word", "_rels", "document.xml.rels">>
AppXml == <<"docProps", "app.xml">>
RelsBackup == <<"_rels_backup.xml">>

\* order in which os.walk lists the files of a directory tree
WalkOrder ==
    <<AppXml, RelsBackup, DocumentRels, DocumentXml, RootRels, ContentTypes>>

RawData(name) == <<[tag |-> "raw", text |-> name[Len(name)]]>>

\* os.path.relpath(file_path, temp_dir) of a file of the _rels directory
UnderRelsDir(name) == Len(name) > 1 /\ name[1] = "_rels"
\* arc_name.startswith('_rels')
StartsWithRels(name) == name[1] \in {"_rels", "_rels_backup.xml"}

\* the entries zip_file.write adds, in order, for the files of temp_dir;
\* data[n] is the content of file n
create_docx_from_temp(names, data) ==
    LET Entries(picked) == [i \in 1..Len(picked) |-> [name |-> picked[i],
                                                     data |-> data[picked[i]]]]
        First(n) == n \in names /\ n = ContentTypes
        Second(n) == n \in names /\ UnderRelsDir(n)
        Third(n) == n \in names /\ n /= ContentTypes /\ ~StartsWithRels(n)
    IN Entries(SelectSeq(WalkOrder, First))
       \o Entries(SelectSeq(WalkOrder, Second))
       \o Entries(SelectSeq(WalkOrder, Third))

\* a file that was never written
NoFile == [exists |-> FALSE, entries |-> <<>>]

----------------------------------------------------------------------------
(* The two sub-operations of split_document_for_conversion *)

\* located: what the locator returned; splitPoint: the index handed to the
\* slicer; xml: the document.xml written; out: the output file
NotRun ==
    [success |-> FALSE, located |-> -1, splitPoint |-> -1, xml |-> <<>>,
     out |-> NoFile]

\* the files of the copied tree, with document.xml overwritten
TempData(names, xml) ==
    [n \in names |-> IF n = DocumentXml THEN xml ELSE RawData(n)]

process_cover_document(names, d, kws) ==
    IF DocumentXml \notin names
    THEN NotRun      \* FileNotFoundError, caught: return False
    ELSE LET located == find_split_point_cover(d, kws)
             splitPoint == IF located = -1 THEN get_default_split_point(d)
                           ELSE located
             xml == split_document_xml_cover(d, splitPoint)
         IN [success |-> TRUE, located |-> located, splitPoint |-> splitPoint,
             xml |-> xml,
             out |-> [exists |-> TRUE,
                      entries |-> create_docx_from_temp(names,
                                                        TempData(names, xml))]]

process_content_no_toc_document(names, d, kws) ==
    IF DocumentXml \notin names
    THEN NotRun
    ELSE LET located == find_split_point_content_no_toc(d, kws)
             splitPoint == IF located = -1 THEN get_default_split_point(d)
                           ELSE located
             xml == split_document_xml_content_no_toc(d, splitPoint)
         IN [success |-> TRUE, located |-> located, splitPoint |-> splitPoint,
             xml |-> xml,
             out |-> [exists |-> TRUE,
                      entries |-> create_docx_from_temp(names,
                                                        TempData(names, xml))]]

----------------------------------------------------------------------------
(* split_document_for_conversion as a state machine *)

KeywordLists ==
    {<<Chars("Toc")>>, <<Chars("Toc"), Chars("Cover")>>, <<>>}

MandatoryNames == {ContentTypes, RootRels, DocumentXml}
StandardNames == MandatoryNames \cup {DocumentRels, AppXml}
OptionalNames == {DocumentRels, AppXml, RelsBackup}

\* Scenario A of the specification
ScenarioA ==
    BuildDoc(P("Cover") \o P("Toc") \o P("Intro1") \o Table \o P("BodyText"), "ok")

\* bodies that reach the stop conditions of the toc_end scan
LongBodies ==
    {P("Toc") \o P("Intro1") \o P("Intro1") \o P("Intro1") \o P("Cover") \o Table,
     P("Cover") \o P("Toc") \o P("Intro1") \o P("Empty") \o P("Long") \o P("Cover"),
     P("Cover") \o BookmarkStart \o P("Cover") \o Table \o P("Cover")
        \o SectionBreak \o P("Intro1") \o P("Long")}

\* bodies with items nested in a container
NestedBodies ==
    {P("Cover") \o Sdt(P("Toc") \o P("Intro1")) \o P("BodyText"),
     P("Toc") \o NestedTable \o P("BodyText")}

SplitDocs ==
    {BuildDoc(b, v) : b \in Bodies, v \in BodyVariants}
        \cup {BuildDoc(b, "ok") : b \in LongBodies \cup NestedBodies}
        \cup {ScenarioA}

\* the header/footer operations are not run
HFIdle ==
    /\ target = <<>> /\ hfpc = "idle" /\ firstText = <<>> /\ injected = <<>>
    /\ replaced = <<>> /\ secondText = <<>> /\ hfResult = <<>>

\* _find_split_point_content_no_toc is not stepped through
ScanIdle ==
    /\ scanpc = "idle" /\ toc_start = -1 /\ toc_end = -1 /\ scan_i = 0
    /\ consecutive_numbered_lines = 0

\* replace_header_footer_content is not run
TxIdle ==
    /\ disk = <<>> /\ disk0 = <<>> /\ txArgs = <<>> /\ txpc = "idle"
    /\ source_content = <<>> /\ txResult = FALSE

\* cover_toc_output and content_no_toc_output
CoverOutput == "cover.docx"
ContentOutput == "content.docx"

\* zipfile.ZipFile(output_path, 'w') raises in _create_docx_from_temp: the
\* exception is caught by the sub-operation, which returns False; no file
\* is made
WriteFailed(r) == IF r.success THEN [r EXCEPT !.success = FALSE, !.out = NoFile]
                  ELSE r

InitSplit ==
    /\ HFIdle /\ ScanIdle /\ TxIdle
    /\ pc = "start"
    /\ cover = NotRun
    /\ content = NotRun
    /\ result = FALSE
    /\ keywords \in KeywordLists
    /\ \/ /\ srcNames = StandardNames
          /\ doc \in SplitDocs
          /\ unwritable = {}
       \/ /\ srcNames \in {MandatoryNames \cup o : o \in SUBSET OptionalNames}
                           \cup {StandardNames \ {m} : m \in MandatoryNames}
          /\ doc = ScenarioA
          /\ unwritable = {}
       \/ /\ srcNames = StandardNames
          /\ doc = ScenarioA
          /\ unwritable \in (SUBSET {CoverOutput, ContentOutput}) \ {{}}

\* cover_success = self._process_cover_document(...)
ProcessCoverDocument ==
    /\ pc = "start"
    /\ cover' = IF CoverOutput \in unwritable
                 THEN WriteFailed(process_cover_document(srcNames, doc, keywords))
                 ELSE process_cover_document(srcNames, doc, keywords)
    /\ pc' = "cover"
    /\ UNCHANGED <<doc, keywords, srcNames, content, result>>
    /\ UNCHANGED <<hfVars, scanVars, txVars, envVars>>

\* content_success = self._process_content_no_toc_document(...), and the
\* return of split_document_for_conversion
ProcessContentNoTocDocument ==
    /\ pc = "cover"
    /\ content' = IF ContentOutput \in unwritable
                   THEN WriteFailed(process_content_no_toc_document(
                                        srcNames, doc, keywords))
                   ELSE process_content_no_toc_document(srcNames, doc, keywords)
    /\ result' = (cover.success /\ content'.success)
    /\ pc' = "done"
    /\ UNCHANGED <<doc, keywords, srcNames, cover>>
    /\ UNCHANGED <<hfVars, scanVars, txVars, envVars>>

NextSplit == ProcessCoverDocument \/ ProcessContentNoTocDocument

SpecSplit == InitSplit /\ [][NextSplit]_vars

----------------------------------------------------------------------------
(* _find_split_point_content_no_toc, iteration by iteration *)

\* mutant: no stop after three numbered lines
ScanIteration_NoThreshold(element, n) ==
    LET text == ParagraphText(element)
    IN IF element.type = "paragraph"
       THEN IF has_page_number_pattern(text) THEN [stop |-> FALSE, n |-> n + 1]
            ELSE IF text = <<>> THEN [stop |-> FALSE, n |-> n]
            ELSE IF Len(text) > LongTextLen /\ ~has_page_number_pattern(text)
            THEN [stop |-> TRUE, n |-> n]
            ELSE [stop |-> FALSE, n |-> 0]
       ELSE IF element.type = "table"
       THEN [stop |-> n = 0, n |-> n]
       ELSE [stop |-> FALSE, n |-> n]

\* mutant: a table inside the TOC resets the counter
ScanIteration_TableResets(element, n) ==
    LET text == ParagraphText(element)
    IN IF element.type = "paragraph"
       THEN IF has_page_number_pattern(text) THEN [stop |-> FALSE, n |-> n + 1]
            ELSE IF text = <<>> THEN [stop |-> FALSE, n |-> n]
            ELSE IF n >= MinNumberedLines THEN [stop |-> TRUE, n |-> n]
            ELSE IF Len(text) > LongTextLen /\ ~has_page_number_pattern(text)
            THEN [stop |-> TRUE, n |-> n]
            ELSE [stop |-> FALSE, n |-> 0]
       ELSE IF element.type = "table"
       THEN [stop |-> n = 0, n |-> 0]
       ELSE [stop |-> FALSE, n |-> n]

\* one iteration of the loop "for i in range(toc_start + 1, len(elements))"
\* on an element, with consecutive_numbered_lines = n: whether it breaks
\* (with toc_end = i - 1) and the counter it leaves
ScanIteration(element, n) ==
    LET text == ParagraphText(element)
    IN IF element.type = "paragraph"
       THEN IF has_page_number_pattern(text) THEN [stop |-> FALSE, n |-> n + 1]
            ELSE IF text = <<>> THEN [stop |-> FALSE, n |-> n]
            ELSE IF n >= MinNumberedLines THEN [stop |-> TRUE, n |-> n]
            ELSE IF Len(text) > LongTextLen /\ ~has_page_number_pattern(text)
            THEN [stop |-> TRUE, n |-> n]
            ELSE [stop |-> FALSE, n |-> 0]
       ELSE IF element.type = "table"
       THEN [stop |-> n = 0, n |-> n]
       ELSE [stop |-> FALSE, n |-> n]

\* bodies with three numbered lines and more after the marker
ScanBodies ==
    {P("Toc") \o P("Intro1") \o P("Intro1") \o P("Intro1") \o P("Cover"),
     P("Toc") \o P("Intro1") \o P("Intro1") \o P("Intro1") \o P("Empty")
        \o P("Cover"),
     P("Toc") \o P("Intro1") \o P("Intro1") \o P("Intro1") \o Table
        \o P("Intro1") \o P("Cover"),
     P("Toc") \o P("Intro1") \o P("Intro1") \o P("Intro1") \o P("Intro1")
        \o P("Long"),
     P("Toc") \o P("Intro1") \o P("Cover") \o P("Intro1") \o P("Intro1")
        \o P("Intro1") \o SectionBreak \o P("Cover")}

\* a marker followed by more numbered lines than the 50 elements of
\* search_limit, then a plain paragraph
WindowBody ==
    P("Toc") \o Concat([k \in 1..(SearchWindow + 1) |-> P("Intro1")])
        \o P("Cover")

ScanDocs ==
    {BuildDoc(b, "ok") : b \in Bodies \cup LongBodies \cup ScanBodies
                                \cup {WindowBody}}

InitScan ==
    /\ HFIdle /\ TxIdle
    /\ unwritable = {}
    /\ doc \in ScanDocs
    /\ keywords \in KeywordLists
    /\ srcNames = {} /\ pc = "idle"
    /\ cover = NotRun /\ content = NotRun /\ result = FALSE
    /\ scanpc = "start"
    /\ toc_start = -1 /\ toc_end = -1 /\ scan_i = 0
    /\ consecutive_numbered_lines = 0

\* the loop looking for toc_start, and "return -1" when there is none
FindTocStartLoop ==
    /\ scanpc = "start"
    /\ toc_start' = FindTocStart(IndexElements(doc), keywords, 0)
    /\ IF toc_start' = -1
       THEN scanpc' = "returned" /\ scan_i' = scan_i
       ELSE scanpc' = "scan" /\ scan_i' = toc_start' + 1
    /\ UNCHANGED <<toc_end, consecutive_numbered_lines>>
    /\ UNCHANGED <<splitVars, hfVars, txVars, envVars>>

\* one iteration of the loop looking for toc_end
ScanStep ==
    /\ scanpc = "scan"
    /\ scan_i < Len(IndexElements(doc))
    /\ LET r == ScanIteration(IndexElements(doc)[scan_i + 1],
                              consecutive_numbered_lines)
       IN IF r.stop
          THEN /\ toc_end' = scan_i - 1
               /\ scanpc' = "returned"
               /\ UNCHANGED <<scan_i, consecutive_numbered_lines>>
          ELSE /\ scan_i' = scan_i + 1
               /\ consecutive_numbered_lines' = r.n
               /\ UNCHANGED <<scanpc, toc_end>>
    /\ UNCHANGED toc_start
    /\ UNCHANGED <<splitVars, hfVars, txVars, envVars>>

\* the loop ran off the end with toc_end == -1: the heuristic loop, then the
\* default, and the return
HeuristicAndDefault ==
    /\ scanpc = "scan"
    /\ scan_i >= Len(IndexElements(doc))
    /\ LET els == IndexElements(doc)
           second == HeuristicTocEnd(els, toc_start + 1,
                                     Min(toc_start + SearchWindow, Len(els)))
       IN toc_end' = IF second /= -1 THEN second
                     ELSE DefaultTocEnd(els, toc_start)
    /\ scanpc' = "returned"
    /\ UNCHANGED <<toc_start, scan_i, consecutive_numbered_lines>>
    /\ UNCHANGED <<splitVars, hfVars, txVars, envVars>>

NextScan == FindTocStartLoop \/ ScanStep \/ HeuristicAndDefault

SpecScan == InitScan /\ [][NextScan]_vars

----------------------------------------------------------------------------
(* Vocabulary of the claims about the split *)

\* the indexed elements of the source, and of an XML text, without offsets
Els == IndexElements(doc)
Shapes(els) == [i \in 1..Len(els) |-> [type |-> els[i].type,
                                      content |-> els[i].content]]
ElementsOf(xml) == Shapes(IndexElements(xml))

\* element i (0-based) is a paragraph whose rendered text holds a marker
IsMarker(i) == Els[i + 1].type = "paragraph" /\ HasKeyword(Els[i + 1], keywords)
MarkerIndexes == {i \in 0..(Len(Els) - 1) : IsMarker(i)}
MarkerFound == MarkerIndexes /= {}
\* tocStart: the least marker index
TocStart == CHOOSE i \in MarkerIndexes : \A j \in MarkerIndexes : i <= j

SplitDone == pc = "done" /\ DocumentXml \in srcNames

\* C1: when the content locator finds a marker paragraph at tocStart, the
\* tocEnd it returns satisfies tocStart <= tocEnd <= last element index; and
\* when no paragraph holds a marker, both locators return -1 and both
\* sub-operations go on with the default split point min(20, total // 5).
C1_TocEndInRange ==
    SplitDone =>
        IF MarkerFound
        THEN /\ TocStart <= content.located
             /\ content.located <= Len(Els) - 1
        ELSE /\ cover.located = -1 /\ content.located = -1
             /\ unwritable = {} => (cover.success /\ content.success)
             /\ cover.splitPoint = Min(Len(Els) \div 5, 20)
             /\ content.splitPoint = Min(Len(Els) \div 5, 20)

\* a marker was found and the scan stopped before the last element
C1_Witness ==
    /\ SplitDone /\ MarkerFound
    /\ TocStart < content.located /\ content.located < Len(Els) - 1

\* C2 as stated: with exactly one marker paragraph, the elements of the
\* cover fragment followed by those of the content fragment are the elements
\* of the original, none dropped and none duplicated.
C2_ConcatIsOriginal ==
    (SplitDone /\ Cardinality(MarkerIndexes) = 1) =>
        ElementsOf(cover.xml) \o ElementsOf(content.xml) = Shapes(Els)

\* C2 amended: for a document with body markers and exactly one marker
\* paragraph, the cover fragment holds exactly the elements before tocStart
\* and the content fragment exactly the elements after tocEnd, so that their
\* concatenation is the original sequence without the elements
\* tocStart..tocEnd (the TOC), with no element duplicated.
C2_ConcatIsOriginalWithoutToc ==
    (SplitDone /\ HasBodyMarkers(doc) /\ Cardinality(MarkerIndexes) = 1) =>
        /\ ElementsOf(cover.xml) = SubSeq(Shapes(Els), 1, TocStart)
        /\ ElementsOf(content.xml)
               = SubSeq(Shapes(Els), content.located + 2, Len(Els))

\* one marker, something before the TOC and something after it
C2_Witness ==
    /\ SplitDone /\ HasBodyMarkers(doc) /\ Cardinality(MarkerIndexes) = 1
    /\ ElementsOf(cover.xml) /= <<>>
    /\ ElementsOf(content.xml) /= <<>>

\* C3 as stated, for the split repackager: every part of the source other
\* than word/document.xml is in each output container exactly once, under
\* the same name and with the same bytes.
PartCopiedOnce(out, n) ==
    Cardinality({i \in 1..Len(out.entries) :
                    out.entries[i].name = n}) = 1
    /\ \A i \in 1..Len(out.entries) :
          out.entries[i].name = n => out.entries[i].data = RawData(n)

C3_OtherPartsCopied ==
    SplitDone =>
        \A n \in srcNames \ {DocumentXml} :
            PartCopiedOnce(cover.out, n) /\ PartCopiedOnce(content.out, n)

\* C6 as stated (Scenario A): tocStart is 1, the cover fragment is
\* [P("Cover")] and the content fragment is [Table, P("Body text")].
IsScenarioA == doc = ScenarioA /\ keywords = <<Chars("Toc")>> /\ SplitDone

C6_ScenarioA ==
    IsScenarioA =>
        /\ cover.located = 1
        /\ ElementsOf(cover.xml) = ElementsOf(P("Cover"))
        /\ ElementsOf(content.xml) = ElementsOf(Table \o P("BodyText"))

\* C6 amended (Scenario A): tocStart is 1 and the cover fragment is
\* [P("Cover")]; the table follows a numbered line, so it does not end the
\* TOC, tocEnd falls back to the last index 4 and the content fragment holds
\* no body element.
C6_ScenarioA_EmptyContent ==
    IsScenarioA =>
        /\ cover.located = 1
        /\ ElementsOf(cover.xml) = ElementsOf(P("Cover"))
        /\ content.located = 4
        /\ ElementsOf(content.xml) = <<>>

C6_Witness == IsScenarioA /\ result

\* C9: with no marker, both sub-operations use d = min(total // 5, 20); and
\* where the document has its body markers and at least one element, the
\* cover is the document up to the start of element d (closed by the body
\* end) and the content is the document from the end of element d (opened by
\* the body start).
C9_DefaultSplit ==
    (SplitDone /\ ~MarkerFound) =>
        LET d == Min(Len(Els) \div 5, 20)
        IN /\ cover.splitPoint = d /\ content.splitPoint = d
           /\ (HasBodyMarkers(doc) /\ Els /= <<>>) =>
                 /\ cover.xml = Slice(doc, 0, Els[d + 1].start)
                                    \o Slice(doc, BodyEndStart(doc), Len(doc))
                 /\ content.xml = Slice(doc, 0, BodyStartEnd(doc))
                                      \o Slice(doc, Els[d + 1].end, Len(doc))

\* no marker, and a default index that is not 0
C9_Witness ==
    /\ SplitDone /\ ~MarkerFound /\ HasBodyMarkers(doc)
    /\ cover.splitPoint = 1 /\ content.splitPoint = 1

\* C10 as stated: when the body-open or the body-close marker is missing,
\* split_document_for_conversion returns False.
C10_NoBodyFails ==
    (SplitDone /\ ~HasBodyMarkers(doc)) => ~result

\* an XML text is well-formed when every element opened in it is closed in
\* it, in order
OpenTags == {"document", "body", "p", "tbl", "sectPr", "sdt"}
CloseTags == {"/document", "/body", "/p", "/tbl", "/sectPr", "/sdt"}
CloseTagOf(tag) ==
    CASE tag = "document" -> "/document"
      [] tag = "body" -> "/body"
      [] tag = "p" -> "/p"
      [] tag = "tbl" -> "/tbl"
      [] tag = "sectPr" -> "/sectPr"
      [] tag = "sdt" -> "/sdt"

RECURSIVE Balanced(_, _)
Balanced(xml, open) ==
    IF xml = <<>> THEN open = <<>>
    ELSE IF Head(xml).tag \in OpenTags
    THEN Balanced(Tail(xml), <<Head(xml).tag>> \o open)
    ELSE IF Head(xml).tag \in CloseTags
    THEN /\ open /= <<>>
         /\ CloseTagOf(Head(open)) = Head(xml).tag
         /\ Balanced(Tail(xml), Tail(open))
    ELSE Balanced(Tail(xml), open)

WellFormed(xml) == Balanced(xml, <<>>)

\* the text is the original header, a contiguous slice of the body content
\* and the original footer
IsBodySlice(xml) ==
    \E a \in 0..Len(BodyContent(doc)) : \E b \in a..Len(BodyContent(doc)) :
        xml = XmlHeader(doc) \o Slice(BodyContent(doc), a, b) \o XmlFooter(doc)

\* C16 as stated: for a well-formed document with body markers, each of the
\* two document XMLs is header, a contiguous slice of the body and footer,
\* and is well-formed.
C16_SlicesWellFormed ==
    (SplitDone /\ HasBodyMarkers(doc) /\ WellFormed(doc)) =>
        /\ IsBodySlice(cover.xml) /\ WellFormed(cover.xml)
        /\ IsBodySlice(content.xml) /\ WellFormed(content.xml)

\* C17 as stated: when the source lacks the content-types declaration, the
\* root relationships part or the main document, the split fails.
C17_MissingPartFails ==
    (pc = "done" /\ ~(MandatoryNames \subseteq srcNames)) => ~result

\* 1-based index of the closing tag that ends the element opened before
\* token j, depth being the number of elements of the same name opened since
RECURSIVE ClosingAtDepth(_, _, _, _)
ClosingAtDepth(d, open, j, depth) ==
    IF j > Len(d) THEN 0
    ELSE IF d[j].tag = open THEN ClosingAtDepth(d, open, j + 1, depth + 1)
    ELSE IF d[j].tag = ClosingTag(open)
    THEN IF depth = 0 THEN j ELSE ClosingAtDepth(d, open, j + 1, depth - 1)
    ELSE ClosingAtDepth(d, open, j + 1, depth)

\* the closing tag of the element whose opening tag is token i
OwnClosingTag(d, i) == ClosingAtDepth(d, d[i].tag, i + 1, 0)

\* C22: an indexed paragraph or table spans from its opening tag to its own
\* closing tag at the same nesting depth, also around nested elements of the
\* same name; the spans are ordered by start and do not overlap.
C22_SpansOwnElement ==
    SplitDone =>
        /\ \A k \in 1..Len(Els) :
              Els[k].type \in {"paragraph", "table"} =>
                  Els[k].end = OwnClosingTag(doc, Els[k].start + 1)
        /\ \A k \in 1..(Len(Els) - 1) : Els[k].end <= Els[k + 1].start

----------------------------------------------------------------------------
(* Claims about the locators, on _find_split_point_content_no_toc stepped   *)
(* through                                                                  *)

\* C18: the content locator's toc_start and the index the cover locator
\* returns are the same: the least index of a paragraph whose rendered text
\* holds a marker, -1 when there is none; an element that is not a paragraph
\* is never chosen.
C18_SameTocStart ==
    scanpc /= "start" =>
        /\ toc_start = (IF MarkerFound THEN TocStart ELSE -1)
        /\ find_split_point_cover(doc, keywords) = toc_start
        /\ toc_start /= -1 => Els[toc_start + 1].type = "paragraph"

\* a table that holds the marker comes before the marker paragraph
C18_Witness ==
    /\ scanpc /= "start" /\ toc_start > 0
    /\ \E j \in 0..(toc_start - 1) :
          Els[j + 1].type = "table" /\ HasKeyword(Els[j + 1], keywords)

\* the scan is about to look at element scan_i
Scanning == scanpc = "scan" /\ scan_i < Len(Els)
ScanAt == Els[scan_i + 1]
NonMatchingParagraph ==
    ScanAt.type = "paragraph" /\ ~has_page_number_pattern(ParagraphText(ScanAt))
\* the scan breaks at scan_i with toc_end = scan_i - 1
StopsHere == scanpc' = "returned" /\ toc_end' = scan_i - 1
\* the scan goes on to the next element with the counter as it was
PassesOver ==
    /\ scanpc' = "scan" /\ scan_i' = scan_i + 1 /\ toc_end' = toc_end
    /\ consecutive_numbered_lines' = consecutive_numbered_lines

\* C19 as stated: with the counter at 3 or more, a paragraph that does not
\* match the page-number pattern stops the scan with toc_end = i - 1.
C19_StopAfterThree ==
    [][(Scanning /\ consecutive_numbered_lines >= 3 /\ NonMatchingParagraph)
          => StopsHere]_vars

\* C19 amended: with the counter at 3 or more, a paragraph that does not
\* match the page-number pattern and whose text is not empty stops the scan
\* with toc_end = i - 1; a paragraph with empty text is passed over and the
\* counter is kept.
C19_StopAfterThreeNonEmpty ==
    [][(Scanning /\ consecutive_numbered_lines >= 3 /\ NonMatchingParagraph)
          => IF ParagraphText(ScanAt) /= <<>> THEN StopsHere ELSE PassesOver]_vars

\* the scan stopped at a short paragraph after three numbered lines
C19_Witness ==
    /\ scanpc = "returned" /\ toc_start /= -1 /\ scan_i < Len(Els)
    /\ toc_end = scan_i - 1
    /\ consecutive_numbered_lines >= 3
    /\ NonMatchingParagraph
    /\ ParagraphText(ScanAt) /= <<>>
    /\ Len(ParagraphText(ScanAt)) <= LongTextLen

\* C20: a table met with the counter at 0 stops the scan with
\* toc_end = i - 1; a table met with the counter above 0 does not stop the
\* scan and leaves the counter as it is.
C20_TableRule ==
    [][(Scanning /\ ScanAt.type = "table")
          => IF consecutive_numbered_lines = 0 THEN StopsHere ELSE PassesOver]_vars

\* the scan has passed over a table with the counter above 0
C20_Witness ==
    /\ scanpc = "scan" /\ scan_i > toc_start + 1
    /\ Els[scan_i].type = "table"
    /\ consecutive_numbered_lines > 0

\* the toc_end scan broke on an element of the 50 after toc_start
StoppedInWindow ==
    scan_i < Len(Els) /\ scan_i <= toc_start + SearchWindow

\* C21: a stop condition of the toc_end scan counts only on the 50 elements
\* after toc_start; when none triggers there toc_end is
\* min(toc_start + 20, last index), so toc_end - toc_start is at most 50
C21_WindowBound ==
    (scanpc = "returned" /\ toc_start /= -1) =>
        /\ ~StoppedInWindow =>
               toc_end = Min(toc_start + DefaultTocSpan, Len(Els) - 1)
        /\ toc_end - toc_start <= SearchWindow

----------------------------------------------------------------------------
(* Header / footer parts (bf/docx_header_footer_replace.py).               *)
(* A part is the sequence of its w:p elements; a paragraph has the sequence *)
(* of its w:r elements; a run is the sequence of its child elements.  A     *)
(* child has a kind (tab, ptab, t, br, instrText), its text, and, for an    *)
(* instrText, the texts of the w:t elements nested in it (kids).            *)

Child(kind, text, kids) == [kind |-> kind, text |-> text, kids |-> kids]
TabEl == Child("tab", <<>>, <<>>)
PTabEl == Child("ptab", <<>>, <<>>)
BrEl == Child("br", <<>>, <<>>)
TextEl(s) == Child("t", s, <<>>)
InstrText(s, kids) == Child("instrText", s, kids)
Para(runs) == [runs |-> runs]

TAB == "\t"
NL == "\n"

\* r_elem.xpath(".//w:t"): the texts of the w:t descendants, in document order
RECURSIVE TextNodes(_)
TextNodes(run) ==
    IF run = <<>> THEN <<>>
    ELSE (CASE Head(run).kind = "t" -> <<Head(run).text>>
            [] Head(run).kind = "instrText" -> Head(run).kids
            [] OTHER -> <<>>)
         \o TextNodes(Tail(run))

\* len(r_elem.xpath(".//w:<kind>"))
CountKind(run, kind) == Len(SelectSeq(run, LAMBDA c : c.kind = kind))

Repeat(c, n) == [i \in 1..n |-> c]

\* what one run adds to para_parts: its tabs, then its texts, then its breaks
RunText(run) ==
    Repeat(TAB, CountKind(run, "tab"))
        \o Concat(TextNodes(run))
        \o Repeat(NL, CountKind(run, "br"))

ParaText(para) == Concat([i \in 1..Len(para.runs) |-> RunText(para.runs[i])])

\* "\n".join(content_parts)
RECURSIVE JoinLines(_)
JoinLines(ls) ==
    IF ls = <<>> THEN <<>>
    ELSE IF Len(ls) = 1 THEN ls[1]
    ELSE ls[1] \o <<NL>> \o JoinLines(Tail(ls))

extract_formatted_content(part) ==
    JoinLines([i \in 1..Len(part) |-> ParaText(part[i])])

\* str.split(sep) for a one-character separator: the pieces between them
RECURSIVE SplitAt(_, _, _)
SplitAt(s, sep, current) ==
    IF s = <<>> THEN <<current>>
    ELSE IF Head(s) = sep THEN <<current>> \o SplitAt(Tail(s), sep, <<>>)
    ELSE SplitAt(Tail(s), sep, Append(current, Head(s)))

\* new_content.split('\n')
Lines(s) == SplitAt(s, NL, <<>>)

\* the list "parts" of a line: its texts with a '\t' marker between them
RECURSIVE TabParts(_, _)
TabParts(line, current) ==
    IF line = <<>> THEN <<current>>
    ELSE IF Head(line) = TAB
    THEN <<current, <<TAB>>>> \o TabParts(Tail(line), <<>>)
    ELSE TabParts(Tail(line), Append(current, Head(line)))

PAGE == <<"PAGE">>

\* mutant: no run is taken to be in a page field
IsInPageField_Never(run) == FALSE

\* is_in_page_field: some w:t of the run has an instrText ancestor whose text
\* holds "PAGE"
IsInPageField(run) ==
    \E i \in 1..Len(run) :
        /\ run[i].kind = "instrText"
        /\ run[i].kids /= <<>>
        /\ Contains(run[i].text, PAGE)

\* t_elem.getparent().remove(t_elem) for every w:t of the run
RemoveTextNodes(run) ==
    LET kept == SelectSeq(run, LAMBDA c : c.kind /= "t")
    IN [i \in 1..Len(kept) |-> [kept[i] EXCEPT !.kids = <<>>]]

\* t_elems[0].text = s
RECURSIVE SetFirstText(_, _)
SetFirstText(run, s) ==
    IF run = <<>> THEN <<>>
    ELSE IF Head(run).kind = "t"
    THEN <<[Head(run) EXCEPT !.text = s]>> \o Tail(run)
    ELSE IF Head(run).kind = "instrText" /\ Head(run).kids /= <<>>
    THEN <<[Head(run) EXCEPT !.kids[1] = s]>> \o Tail(run)
    ELSE <<Head(run)>> \o SetFirstText(Tail(run), s)

\* the index the loops "while part_index < len(parts) and parts[part_index]
\* (!=, ==) '\t'" stop at, from index i on (0-based)
RECURSIVE SkipWhile(_, _, _)
SkipWhile(parts, i, tabs) ==
    IF i < Len(parts) /\ ((parts[i + 1] = <<TAB>>) = tabs)
    THEN SkipWhile(parts, i + 1, tabs)
    ELSE i

\* mutant: a run without a text node uses up a text part all the same
ReplaceRun_ConsumesWithoutText(run, parts, i) ==
    IF IsInPageField(run) THEN [run |-> run, index |-> i]
    ELSE IF CountKind(run, "tab") > 0 \/ CountKind(run, "ptab") > 0
    THEN LET j == SkipWhile(parts, i, FALSE)
         IN IF j < Len(parts)
            THEN [run |-> RemoveTextNodes(run), index |-> j + 1]
            ELSE [run |-> run, index |-> j]
    ELSE IF i < Len(parts)
    THEN LET j == SkipWhile(parts, i, TRUE)
         IN IF j < Len(parts)
            THEN [run |-> SetFirstText(run, parts[j + 1]), index |-> j + 1]
            ELSE [run |-> run, index |-> j]
    ELSE IF TextNodes(run) /= <<>>
    THEN [run |-> SetFirstText(run, <<>>), index |-> i]
    ELSE [run |-> run, index |-> i]

\* one pass of the loop "for r_elem in r_elems": the run as it is left and
\* the new part_index
ReplaceRun(run, parts, i) ==
    IF IsInPageField(run) THEN [run |-> run, index |-> i]
    ELSE IF CountKind(run, "tab") > 0 \/ CountKind(run, "ptab") > 0
    THEN LET j == SkipWhile(parts, i, FALSE)
         IN IF j < Len(parts)
            THEN [run |-> RemoveTextNodes(run), index |-> j + 1]
            ELSE [run |-> run, index |-> j]
    ELSE IF TextNodes(run) /= <<>> /\ i < Len(parts)
    THEN LET j == SkipWhile(parts, i, TRUE)
         IN IF j < Len(parts)
            THEN [run |-> SetFirstText(run, parts[j + 1]), index |-> j + 1]
            ELSE [run |-> run, index |-> j]
    ELSE IF TextNodes(run) /= <<>>
    THEN [run |-> SetFirstText(run, <<>>), index |-> i]
    ELSE [run |-> run, index |-> i]

RECURSIVE ReplaceRuns(_, _, _)
ReplaceRuns(runs, parts, i) ==
    IF runs = <<>> THEN <<>>
    ELSE LET r == ReplaceRun(Head(runs), parts, i)
         IN <<r.run>> \o ReplaceRuns(Tail(runs), parts, r.index)

\* mutant: a paragraph without a line of its own is given an empty line
replace_formatted_content_EmptyLineForRest(part, newContent) ==
    LET lines == Lines(newContent)
    IN [p \in 1..Len(part) |->
            [part[p] EXCEPT
                !.runs = ReplaceRuns(part[p].runs,
                                     TabParts(IF p > Len(lines) THEN <<>>
                                              ELSE lines[p], <<>>), 0)]]

\* the part as replace_formatted_content(root, new_content, nsmap) leaves it
replace_formatted_content(part, newContent) ==
    LET lines == Lines(newContent)
    IN [p \in 1..Len(part) |->
            IF p > Len(lines) THEN part[p]
            ELSE [part[p] EXCEPT
                     !.runs = ReplaceRuns(part[p].runs, TabParts(lines[p], <<>>), 0)]]

----------------------------------------------------------------------------
(* extract_header_footer_content.  A document is given by its sections (the *)
(* w:sectPr elements in document order, each with its header and footer     *)
(* references), its relationships (id -> target) and its parts.             *)

\* str.split(): the maximal pieces without white space
RECURSIVE Words(_, _)
Words(s, current) ==
    IF s = <<>> THEN (IF current = <<>> THEN <<>> ELSE <<current>>)
    ELSE IF Head(s) \in Whitespace
    THEN (IF current = <<>> THEN <<>> ELSE <<current>>) \o Words(Tail(s), <<>>)
    ELSE Words(Tail(s), Append(current, Head(s)))

\* the part a reference resolves to: "word/" + Target, when the id is in the
\* relationships and the part is in the container
Resolves(docx, ref) ==
    /\ docx.hasRels
    /\ ref.rid \in DOMAIN docx.rels
    /\ docx.rels[ref.rid] \in DOMAIN docx.parts
ResolvedPart(docx, ref) == docx.parts[docx.rels[ref.rid]]

\* the content stored for a resolved header: the first two words of the
\* reconstructed text joined by a tab; parts[1] raises IndexError when the
\* text has fewer than two words
HeaderRaises(part) == Len(Words(Strip(extract_formatted_content(part)), <<>>)) < 2
HeaderContent(part) ==
    LET parts == Words(Strip(extract_formatted_content(part)), <<>>)
    IN parts[1] \o <<TAB>> \o parts[2]

\* the content stored for a resolved footer
FooterContent(part) == extract_formatted_content(part)

\* result["headers"] after the loop over header_refs (a later reference of a
\* type overwrites an earlier one)
RECURSIVE HeaderMap(_, _, _)
HeaderMap(docx, refs, map) ==
    IF refs = <<>> THEN map
    ELSE IF Resolves(docx, Head(refs))
    THEN HeaderMap(docx, Tail(refs),
                   [t \in DOMAIN map \cup {Head(refs).type} |->
                        IF t = Head(refs).type
                        THEN HeaderContent(ResolvedPart(docx, Head(refs)))
                        ELSE map[t]])
    ELSE HeaderMap(docx, Tail(refs), map)

RECURSIVE FooterMap(_, _, _)
FooterMap(docx, refs, map) ==
    IF refs = <<>> THEN map
    ELSE IF Resolves(docx, Head(refs))
    THEN FooterMap(docx, Tail(refs),
                   [t \in DOMAIN map \cup {Head(refs).type} |->
                        IF t = Head(refs).type
                        THEN FooterContent(ResolvedPart(docx, Head(refs)))
                        ELSE map[t]])
    ELSE FooterMap(docx, Tail(refs), map)

EmptyMap == [t \in {} |-> <<>>]
Raised == [raised |-> TRUE, headers |-> EmptyMap, footers |-> EmptyMap]

\* sects[section_index - 1], with Python's negative indexes; 0 when the index
\* is out of range (IndexError)
SectionAt(docx, sectionIndex) ==
    IF sectionIndex >= 1 THEN sectionIndex
    ELSE IF Len(docx.sects) + sectionIndex >= 1 THEN Len(docx.sects) + sectionIndex
    ELSE 0

extract_header_footer_content(docx, sectionIndex) ==
    IF Len(docx.sects) < sectionIndex THEN Raised           \* ValueError
    ELSE IF SectionAt(docx, sectionIndex) = 0 THEN Raised   \* IndexError
    ELSE LET sect == docx.sects[SectionAt(docx, sectionIndex)]
         IN IF \E i \in 1..Len(sect.headerRefs) :
                   /\ Resolves(docx, sect.headerRefs[i])
                   /\ HeaderRaises(ResolvedPart(docx, sect.headerRefs[i]))
            THEN Raised                                     \* IndexError
            ELSE [raised |-> FALSE,
                  headers |-> HeaderMap(docx, sect.headerRefs, EmptyMap),
                  footers |-> FooterMap(docx, sect.footerRefs, EmptyMap)]

----------------------------------------------------------------------------
(* The header/footer operations as a state machine *)

\* the runs the enumerated paragraphs are built from
FieldRun == <<InstrText(<<" ", "PAGE", " ">>, <<>>)>>
NestedFieldRun == <<InstrText(<<"PAGE">>, <<<<"1">>>>)>>
EmptyTextRun == <<TextEl(<<>>)>>

RunShapes ==
    {<<TextEl(<<"Library">>)>>,
     EmptyTextRun,
     <<TabEl>>,
     <<TabEl, TextEl(<<"No-12345">>)>>,
     <<TextEl(<<"Report">>), BrEl>>,
     <<TextEl(<<"Page">>), TextEl(<<" ", "Info">>)>>,
     <<PTabEl>>,
     <<>>,
     FieldRun,
     NestedFieldRun}

FirstParagraphs ==
    UNION {{Para(rs) : rs \in [1..n -> RunShapes]} : n \in 0..MaxRuns}

\* what follows the first paragraph
FurtherParagraphs ==
    {<<>>,
     <<Para(<<<<TextEl(<<"Report">>)>>>>)>>,
     <<Para(<<FieldRun, EmptyTextRun>>)>>}

\* Scenario B of the specification: "Library\tNo-12345" and "Report"
ScenarioB ==
    <<Para(<<<<TextEl(<<"Library">>)>>, <<TabEl>>, <<TextEl(<<"No-12345">>)>>>>),
      Para(<<<<TextEl(<<"Report">>)>>>>)>>

ScenarioBText == <<"Library", TAB, "No-12345", NL, "Report">>
PageInfo == <<"Page", " ", "Info">>

\* <w:fldChar w:fldCharType="..."/>
FldChar(type) == Child("fldChar", <<type>>, <<>>)

\* one run with text before and after its tab and its break
MixedRunPart ==
    <<Para(<<<<TextEl(<<"Library">>), TabEl, TextEl(<<"No-12345">>), BrEl,
             TextEl(<<"Report">>)>>>>)>>

\* "Page " and a complex PAGE field: begin, instruction, separate, the
\* displayed number, end
ComplexFieldPart ==
    <<Para(<<<<TextEl(<<"Page", " ">>)>>, <<FldChar("begin")>>, FieldRun,
             <<FldChar("separate")>>, <<TextEl(<<"1">>)>>,
             <<FldChar("end")>>>>)>>

Targets ==
    {<<p>> \o rest : p \in FirstParagraphs, rest \in FurtherParagraphs}
        \cup {<<>>, ScenarioB, MixedRunPart, ComplexFieldPart}

\* strings injected besides the extracted one
Contents ==
    {<<>>, PageInfo, ScenarioBText, <<TAB>>, <<"Library", TAB, "No-12345">>,
     <<"X", NL, TAB, "Y", NL, "Z">>}

DefaultType == "default"

\* a document whose only section refers to the part as its default header
\* and as its default footer
DocxWith(part) ==
    [sects |-> <<[headerRefs |-> <<[type |-> DefaultType, rid |-> "rId1"]>>,
                  footerRefs |-> <<[type |-> DefaultType, rid |-> "rId2"]>>]>>,
     hasRels |-> TRUE,
     rels |-> [r \in {"rId1", "rId2"} |->
                  IF r = "rId1" THEN "header1.xml" ELSE "footer1.xml"],
     parts |-> [n \in {"header1.xml", "footer1.xml"} |-> part]]

\* the split is not run
SplitIdle ==
    /\ doc = <<>> /\ keywords = <<>> /\ srcNames = {} /\ pc = "idle"
    /\ cover = NotRun /\ content = NotRun /\ result = FALSE

InitHF ==
    /\ SplitIdle /\ ScanIdle /\ TxIdle
    /\ unwritable = {}
    /\ target \in Targets
    /\ hfpc = "start"
    /\ firstText = <<>> /\ injected = <<>> /\ replaced = <<>>
    /\ secondText = <<>> /\ hfResult = <<>>

ExtractFormattedContent ==
    /\ hfpc = "start"
    /\ firstText' = extract_formatted_content(target)
    /\ hfpc' = "extracted"
    /\ UNCHANGED <<target, injected, replaced, secondText, hfResult>>
    /\ UNCHANGED <<splitVars, scanVars, txVars, envVars>>

\* replace_formatted_content with the extracted string or with another one
ReplaceFormattedContent ==
    /\ hfpc = "extracted"
    /\ \E c \in Contents \cup {firstText} :
          /\ injected' = c
          /\ replaced' = replace_formatted_content(target, c)
    /\ hfpc' = "replaced"
    /\ UNCHANGED <<target, firstText, secondText, hfResult>>
    /\ UNCHANGED <<splitVars, scanVars, txVars, envVars>>

ExtractAgain ==
    /\ hfpc = "replaced"
    /\ secondText' = extract_formatted_content(replaced)
    /\ hfpc' = "done"
    /\ UNCHANGED <<target, firstText, injected, replaced, hfResult>>
    /\ UNCHANGED <<splitVars, scanVars, txVars, envVars>>

\* extract_header_footer_content(docx_path, 1) on a document whose section
\* has the part as header and as footer
ExtractHeaderFooterContent ==
    /\ hfpc = "start"
    /\ hfResult' = extract_header_footer_content(DocxWith(target), 1)
    /\ hfpc' = "extractedAll"
    /\ UNCHANGED <<target, firstText, injected, replaced, secondText>>
    /\ UNCHANGED <<splitVars, scanVars, txVars, envVars>>

NextHF ==
    \/ ExtractFormattedContent
    \/ ReplaceFormattedContent
    \/ ExtractAgain
    \/ ExtractHeaderFooterContent

SpecHF == InitHF /\ [][NextHF]_vars

----------------------------------------------------------------------------
(* Vocabulary of the claims about headers and footers *)

Injected == hfpc \in {"replaced", "done"}

\* the page-number field instructions of a run: its instrText elements whose
\* text holds PAGE, with all they contain
PageInstructions(run) ==
    SelectSeq(run, LAMBDA c : c.kind = "instrText" /\ Contains(c.text, PAGE))

HasPageField(part) ==
    \E p \in 1..Len(part) : \E r \in 1..Len(part[p].runs) :
        PageInstructions(part[p].runs[r]) /= <<>>

\* C4: for a target that holds a page-number field and for any injected
\* string, replace_formatted_content leaves every page-field instruction
\* text as it was and removes no run.
C4_PageFieldKept ==
    (Injected /\ HasPageField(target)) =>
        /\ Len(replaced) = Len(target)
        /\ \A p \in 1..Len(target) :
              /\ Len(replaced[p].runs) = Len(target[p].runs)
              /\ \A r \in 1..Len(target[p].runs) :
                    PageInstructions(replaced[p].runs[r])
                        = PageInstructions(target[p].runs[r])

\* a page field beside a run that the injection rewrote
C4_Witness ==
    /\ Injected /\ HasPageField(target)
    /\ replaced /= target
    /\ \E p \in 1..Len(target) : \E r \in 1..Len(target[p].runs) :
          IsInPageField(target[p].runs[r])

\* C5 as stated: injecting the extracted string back into the same part
\* gives a part whose re-extracted string is the extracted one.
C5_RoundTrip ==
    (hfpc = "done" /\ injected = firstText) => secondText = firstText

\* C7 as stated: the content returned for a resolved header is the full
\* reconstructed text of the part, as it is for a footer.
C7_HeaderIsFullText ==
    (hfpc = "extractedAll" /\ ~hfResult.raised) =>
        /\ hfResult.headers[DefaultType] = extract_formatted_content(target)
        /\ hfResult.footers[DefaultType] = extract_formatted_content(target)

\* C8 (Scenario C): a paragraph of a page-number field run followed by an
\* empty run; injecting "Page Info" leaves the field run as it was and puts
\* "Page Info" into the other run.
IsScenarioC ==
    /\ Injected /\ injected = PageInfo
    /\ \E f \in {FieldRun, NestedFieldRun} : target = <<Para(<<f, EmptyTextRun>>)>>

C8_ScenarioC ==
    IsScenarioC =>
        /\ replaced[1].runs[1] = target[1].runs[1]
        /\ replaced[1].runs[2] = <<TextEl(PageInfo)>>

C8_Witness == IsScenarioC /\ target[1].runs[1] = NestedFieldRun

\* extract_formatted_content has run on the target
Extracted == hfpc \in {"extracted", "replaced", "done"}

\* what a child of a run stands for in the text, nested w:t included
ChildText(c) ==
    CASE c.kind = "tab" -> <<TAB>>
      [] c.kind = "t" -> c.text
      [] c.kind = "br" -> <<NL>>
      [] c.kind = "instrText" -> Concat(c.kids)
      [] OTHER -> <<>>

\* the text of a part with every child taken where it stands in its run
DocumentOrderText(part) ==
    JoinLines([p \in 1..Len(part) |->
        Concat([r \in 1..Len(part[p].runs) |->
            Concat([c \in 1..Len(part[p].runs[r]) |->
                ChildText(part[p].runs[r][c])])])])

NonFieldRun(run) == ~IsInPageField(run) /\ PageInstructions(run) = <<>>

IsTabRun(run) == CountKind(run, "tab") > 0 \/ CountKind(run, "ptab") > 0

\* C26 as stated: in a paragraph that was given a content line, a tab run
\* that is no field run holds no text, and any other non-field run holds
\* nothing but a text token of the line (or the empty text, when the tokens
\* ran out) in its first text node, its other text nodes being empty.
C26_NoStaleText ==
    Injected =>
        \A p \in 1..Min(Len(target), Len(Lines(injected))) :
            \A r \in 1..Len(target[p].runs) :
                LET run == replaced[p].runs[r]
                    texts == TextNodes(run)
                    parts == TabParts(Lines(injected)[p], <<>>)
                IN NonFieldRun(target[p].runs[r]) =>
                      IF IsTabRun(target[p].runs[r])
                      THEN Concat(texts) = <<>>
                      ELSE texts /= <<>> =>
                              /\ \/ texts[1] = <<>>
                                 \/ \E k \in 1..Len(parts) :
                                       parts[k] /= <<TAB>> /\ texts[1] = parts[k]
                              /\ Concat(Tail(texts)) = <<>>

\* C23 as stated: the \t, text and \n contributions of a run come in the
\* order of its child elements; runs are concatenated and paragraphs joined
\* with \n.
C23_DocumentOrder ==
    Extracted => firstText = DocumentOrderText(target)

HasFldChar(run, type) ==
    \E c \in 1..Len(run) : run[c].kind = "fldChar" /\ run[c].text = <<type>>

\* the runs that are no part of a field: not between a begin and an end
\* mark, and holding no PAGE instruction
RECURSIVE RunsOutsideFields(_, _)
RunsOutsideFields(runs, inside) ==
    IF runs = <<>> THEN <<>>
    ELSE IF HasFldChar(Head(runs), "begin")
    THEN RunsOutsideFields(Tail(runs), TRUE)
    ELSE IF HasFldChar(Head(runs), "end")
    THEN RunsOutsideFields(Tail(runs), FALSE)
    ELSE IF inside \/ PageInstructions(Head(runs)) /= <<>>
    THEN RunsOutsideFields(Tail(runs), inside)
    ELSE <<Head(runs)>> \o RunsOutsideFields(Tail(runs), inside)

WithoutPageFields(part) ==
    [p \in 1..Len(part) |-> Para(RunsOutsideFields(part[p].runs, FALSE))]

\* C24 as stated: the extracted text holds nothing contributed by a run of a
\* page-number field, neither its instruction nor its displayed result.
C24_NoPageFieldText ==
    Extracted => firstText = extract_formatted_content(WithoutPageFields(target))

----------------------------------------------------------------------------
(* replace_header_footer_content.  A paragraph of a header/footer part has  *)
(* its runs and its paragraph properties: whether it has a w:pPr, the value *)
(* of its w:jc and its w:tabs element ("none" when absent).                 *)

ParaPr(runs, present, jc, tabs) ==
    [runs |-> runs, pPr |-> [present |-> present, jc |-> jc, tabs |-> tabs]]

\* properties: one {jc_val, tabs_xml} per paragraph of the source part that
\* has a w:pPr, in order
RECURSIVE SourceProperties(_)
SourceProperties(part) ==
    IF part = <<>> THEN <<>>
    ELSE (IF Head(part).pPr.present
          THEN <<[jc_val |-> Head(part).pPr.jc, tabs_xml |-> Head(part).pPr.tabs]>>
          ELSE <<>>)
         \o SourceProperties(Tail(part))

\* source_header_properties / source_footer_properties after their loop
RECURSIVE PropertiesMap(_, _, _)
PropertiesMap(docx, refs, map) ==
    IF refs = <<>> THEN map
    ELSE IF Resolves(docx, Head(refs))
    THEN PropertiesMap(docx, Tail(refs),
                       [t \in DOMAIN map \cup {Head(refs).type} |->
                            IF t = Head(refs).type
                            THEN SourceProperties(ResolvedPart(docx, Head(refs)))
                            ELSE map[t]])
    ELSE PropertiesMap(docx, Tail(refs), map)

\* the loop "for j, p_elem in enumerate(p_elems)" applying source_properties
ApplyProperties(part, props) ==
    [j \in 1..Len(part) |->
        IF j <= Len(props) /\ part[j].pPr.present
        THEN [part[j] EXCEPT
                 !.pPr.jc = IF props[j].jc_val /= "none" THEN props[j].jc_val
                            ELSE @,
                 !.pPr.tabs = IF props[j].tabs_xml /= "none" THEN props[j].tabs_xml
                              ELSE @]
        ELSE part[j]]

\* mutant: a type the source has no content for is cleared in the target
TransplantPart_ClearsWithoutSource(part, type, contents, properties) ==
    LET withText ==
            IF type \in DOMAIN contents /\ contents[type] /= <<>>
            THEN replace_formatted_content(part, contents[type])
            ELSE replace_formatted_content(part, <<>>)
    IN IF type \in DOMAIN properties
       THEN ApplyProperties(withText, properties[type])
       ELSE withText

\* what the transplant makes of one resolved part of the target
TransplantPart(part, type, contents, properties) ==
    LET withText ==
            IF type \in DOMAIN contents /\ contents[type] /= <<>>
            THEN replace_formatted_content(part, contents[type])
            ELSE part
    IN IF type \in DOMAIN properties
       THEN ApplyProperties(withText, properties[type])
       ELSE withText

\* files after the loop over the target's header (or footer) references
RECURSIVE ReplaceParts(_, _, _, _)
ReplaceParts(docx, refs, contents, properties) ==
    IF refs = <<>> THEN docx
    ELSE IF Resolves(docx, Head(refs))
    THEN ReplaceParts(
             [docx EXCEPT !.parts[docx.rels[Head(refs).rid]] =
                 TransplantPart(@, Head(refs).type, contents, properties)],
             Tail(refs), contents, properties)
    ELSE ReplaceParts(docx, Tail(refs), contents, properties)

\* a document on disk, and a path with no file
File(docx) == [exists |-> TRUE, docx |-> docx]
Absent == [exists |-> FALSE, docx |-> <<>>]

\* a file of which only a part was written: not a readable container
Truncated == [exists |-> TRUE, docx |-> <<>>]

\* what is at the output path when the write of the new container raises
\* after os.remove: nothing when ZipFile could not open the file, a part of
\* the container when a writestr failed
FailedWrites == {Absent, Truncated}

\* output_path = save_path if save_path else target_docx_path
OutputPath(args) ==
    IF args.save_path = "" THEN args.target_docx_path ELSE args.save_path

\* mutant: the output file is removed before the operation fails
TransplantFailed_RemovesOutput(d, args) ==
    [ok |-> FALSE, disk |-> [d EXCEPT ![OutputPath(args)] = Absent]]

\* the except branch: return False
TransplantFailed(d, args) == [ok |-> FALSE, disk |-> d]

\* replace_header_footer_content after its call of
\* extract_header_footer_content returned sc
replace_header_footer_content(d, args, sc) ==
    LET source == d[args.source_docx_path].docx
        tgt == d[args.target_docx_path].docx
    IN IF Len(source.sects) < args.source_section_index
          \/ SectionAt(source, args.source_section_index) = 0
          \/ Len(tgt.sects) < args.target_section_index
          \/ SectionAt(tgt, args.target_section_index) = 0
       THEN TransplantFailed(d, args)
       ELSE LET source_sect == source.sects[SectionAt(source, args.source_section_index)]
                target_sect == tgt.sects[SectionAt(tgt, args.target_section_index)]
                hprops == PropertiesMap(source, source_sect.headerRefs, EmptyMap)
                fprops == PropertiesMap(source, source_sect.footerRefs, EmptyMap)
                withHeaders == ReplaceParts(tgt, target_sect.headerRefs,
                                            sc.headers, hprops)
                files == ReplaceParts(withHeaders, target_sect.footerRefs,
                                      sc.footers, fprops)
            IN [ok |-> TRUE,
                disk |-> [d EXCEPT ![OutputPath(args)] = File(files)]]

----------------------------------------------------------------------------
(* replace_header_footer_content as a state machine *)

SourcePath == "source.docx"
TargetPath == "target.docx"
OtherPath == "out.docx"
Paths == {SourcePath, TargetPath, OtherPath}

HeaderName == "header1.xml"
FooterName == "footer1.xml"

\* a document with one section, a default header and a default footer;
\* the variant says which resolution step misses
ResolutionVariants == {"ok", "noRid", "noPart", "noRels"}

MkDocx(header, footer, variant) ==
    [sects |-> <<[headerRefs |-> <<[type |-> DefaultType, rid |-> "rId1"]>>,
                  footerRefs |-> <<[type |-> DefaultType, rid |-> "rId2"]>>]>>,
     hasRels |-> variant /= "noRels",
     rels |-> [r \in (CASE variant = "noRels" -> {}
                        [] variant = "noRid" -> {"rId2"}
                        [] OTHER -> {"rId1", "rId2"}) |->
                  IF r = "rId1" THEN HeaderName ELSE FooterName],
     parts |-> [n \in (IF variant = "noPart" THEN {HeaderName}
                       ELSE {HeaderName, FooterName}) |->
                  IF n = HeaderName THEN header ELSE footer]]

SourceHeaders ==
    {<<ParaPr(<<<<TextEl(<<"Library">>)>>, <<TabEl>>, <<TextEl(<<"No-12345">>)>>>>,
              TRUE, "center", "tabsA")>>,
     <<ParaPr(<<<<TextEl(<<"Report">>)>>>>, TRUE, "center", "none")>>}

SourceFooters ==
    {<<ParaPr(<<<<TextEl(PageInfo)>>>>, TRUE, "right", "tabsA")>>,
     <<ParaPr(<<FieldRun>>, TRUE, "center", "tabsA")>>,
     <<ParaPr(<<<<TextEl(<<"Report">>)>>>>, FALSE, "none", "none"),
       ParaPr(<<<<TextEl(PageInfo)>>>>, TRUE, "center", "tabsA")>>}

TargetHeaders ==
    {<<ParaPr(<<<<TextEl(<<"Old">>)>>, <<TabEl>>, <<TextEl(<<"H">>)>>>>,
              TRUE, "left", "tabsB")>>}

TargetFooters ==
    {<<ParaPr(<<FieldRun, <<TextEl(<<"Old">>)>>>>, TRUE, "left", "tabsB")>>,
     <<ParaPr(<<<<TextEl(<<"Old">>)>>>>, FALSE, "none", "none"),
       ParaPr(<<FieldRun, EmptyTextRun>>, TRUE, "none", "none")>>}

SourceDocs ==
    {MkDocx(h, f, v) : h \in SourceHeaders, f \in SourceFooters,
                       v \in ResolutionVariants}
TargetDocs ==
    {MkDocx(h, f, v) : h \in TargetHeaders, f \in TargetFooters,
                       v \in ResolutionVariants}

\* what is at the third path before the call: nothing, or an older document
ExistingOutputs == {Absent, File(MkDocx(<<>>, <<>>, "ok"))}

\* in range, beyond the last section, zero and negative
SectionIndexes == {-1, 0, 1, 2}
SavePaths == {"", OtherPath, TargetPath, SourcePath}

InitTx ==
    /\ SplitIdle /\ HFIdle /\ ScanIdle
    /\ \E s \in SourceDocs, t \in TargetDocs, o \in ExistingOutputs :
          disk = [p \in Paths |-> CASE p = SourcePath -> File(s)
                                    [] p = TargetPath -> File(t)
                                    [] OTHER -> o]
    /\ disk0 = disk
    /\ txArgs \in [source_docx_path : {SourcePath},
                   target_docx_path : {TargetPath},
                   source_section_index : SectionIndexes,
                   target_section_index : SectionIndexes,
                   save_path : SavePaths]
    /\ txpc = "start"
    /\ source_content = <<>>
    /\ txResult = FALSE
    /\ unwritable \in {{}, {OtherPath}, {TargetPath}}

\* source_content = extract_header_footer_content(source_docx_path,
\* source_section_index); an exception ends the operation with False
ExtractSourceContent ==
    /\ txpc = "start"
    /\ source_content' = extract_header_footer_content(
                             disk[txArgs.source_docx_path].docx,
                             txArgs.source_section_index)
    /\ IF source_content'.raised
       THEN /\ txpc' = "done"
            /\ txResult' = TransplantFailed(disk, txArgs).ok
            /\ disk' = TransplantFailed(disk, txArgs).disk
       ELSE /\ txpc' = "extracted"
            /\ UNCHANGED <<txResult, disk>>
    /\ UNCHANGED <<disk0, txArgs>>
    /\ UNCHANGED <<splitVars, hfVars, scanVars, envVars>>

\* the rest of replace_header_footer_content: properties, injection, save
ReplaceAndSave ==
    /\ txpc = "extracted"
    /\ LET r == replace_header_footer_content(disk, txArgs, source_content)
       IN IF r.ok /\ OutputPath(txArgs) \in unwritable
          THEN \E left \in FailedWrites :
                  /\ txResult' = FALSE
                  /\ disk' = [disk EXCEPT ![OutputPath(txArgs)] = left]
          ELSE txResult' = r.ok /\ disk' = r.disk
    /\ txpc' = "done"
    /\ UNCHANGED <<disk0, txArgs, source_content>>
    /\ UNCHANGED <<splitVars, hfVars, scanVars, envVars>>

NextTx == ExtractSourceContent \/ ReplaceAndSave

SpecTx == InitTx /\ [][NextTx]_vars

----------------------------------------------------------------------------
(* Claims about replace_header_footer_content *)

TxDone == txpc = "done"
Src0 == disk0[SourcePath].docx
Tgt0 == disk0[TargetPath].docx
\* the document at the output path after the call
Out == disk[OutputPath(txArgs)].docx
SourceIndexExceeds == Len(Src0.sects) < txArgs.source_section_index
TargetIndexExceeds == Len(Tgt0.sects) < txArgs.target_section_index
SourceIndexInRange == txArgs.source_section_index \in 1..Len(Src0.sects)
TargetIndexInRange == txArgs.target_section_index \in 1..Len(Tgt0.sects)

Kinds == {"headers", "footers"}
RefsOf(docx, kind) ==
    IF kind = "headers" THEN docx.sects[1].headerRefs ELSE docx.sects[1].footerRefs
PartNameOf(kind) == IF kind = "headers" THEN HeaderName ELSE FooterName
\* no reference of the kind resolves to a part
Unresolved(docx, kind) ==
    \A i \in 1..Len(RefsOf(docx, kind)) : ~Resolves(docx, RefsOf(docx, kind)[i])
\* the target's part of the kind is in the output as it was in the target
PartKept(kind) ==
    PartNameOf(kind) \in DOMAIN Tgt0.parts =>
        Out.parts[PartNameOf(kind)] = Tgt0.parts[PartNameOf(kind)]

\* C11: when the source or the target section index exceeds the number of
\* sections, the extraction on that document raises and
\* replace_header_footer_content returns False with every file on disk,
\* the one at the output path included, as it was.
C11_SectionIndexFails ==
    (TxDone /\ (SourceIndexExceeds \/ TargetIndexExceeds)) =>
        /\ ~txResult
        /\ disk = disk0
        /\ SourceIndexExceeds => source_content.raised
        /\ TargetIndexExceeds =>
              extract_header_footer_content(
                  Tgt0, txArgs.target_section_index).raised

\* the target index exceeds after a good extraction, with an older file at
\* the output path
C11_Witness ==
    /\ TxDone /\ TargetIndexExceeds /\ ~SourceIndexExceeds
    /\ ~source_content.raised
    /\ txArgs.save_path = OtherPath /\ disk0[OtherPath].exists

\* some resolved header of the source has fewer than two words
SomeHeaderRaises ==
    \E i \in 1..Len(RefsOf(Src0, "headers")) :
        /\ Resolves(Src0, RefsOf(Src0, "headers")[i])
        /\ HeaderRaises(ResolvedPart(Src0, RefsOf(Src0, "headers")[i]))

C13_FailureIsolated ==
    (TxDone /\ ~SourceIndexExceeds /\ ~TargetIndexExceeds) =>
        /\ ~source_content.raised
        /\ ~Unresolved(Src0, "footers") =>
              DefaultType \in DOMAIN source_content.footers
        /\ txResult

\* C14 as stated: for a type whose extracted content is the empty string,
\* the target's part of that type keeps text, alignment and tab stops.
C14_EmptyContentSkipsBoth ==
    (TxDone /\ txResult) =>
        \A k \in Kinds :
            (/\ DefaultType \in DOMAIN source_content[k]
             /\ source_content[k][DefaultType] = <<>>) => PartKept(k)

\* C15 as stated, for the transplant: after the operation the source and
\* the target document are on disk as they were, whatever the save path.
C15_InputsUntouched ==
    TxDone =>
        /\ disk[SourcePath] = disk0[SourcePath]
        /\ disk[TargetPath] = disk0[TargetPath]

\* C27 as stated: after a transplant, for every paragraph index j that the
\* source part and the target part of a type both have, target paragraph j
\* has the alignment of source paragraph j when that has one, and a copy of
\* its tab-stop definition when that has one.
C27_PropertiesByIndex ==
    (TxDone /\ txResult) =>
        \A kind \in Kinds :
            (~Unresolved(Src0, kind) /\ ~Unresolved(Tgt0, kind)) =>
                LET from == Src0.parts[PartNameOf(kind)]
                    to == Out.parts[PartNameOf(kind)]
                IN \A j \in 1..Min(Len(from), Len(to)) :
                      /\ from[j].pPr.jc /= "none" =>
                            to[j].pPr.jc = from[j].pPr.jc
                      /\ from[j].pPr.tabs /= "none" =>
                            to[j].pPr.tabs = from[j].pPr.tabs

\* C28 as stated: with n sections, extraction and transplant work on the
\* section at position section_index when it is in 1..n, and fail for every
\* section_index outside 1..n, zero and negative values included.
C28_SectionIndexChecked ==
    TxDone =>
        /\ SourceIndexInRange =>
              SectionAt(Src0, txArgs.source_section_index)
                  = txArgs.source_section_index
        /\ TargetIndexInRange =>
              SectionAt(Tgt0, txArgs.target_section_index)
                  = txArgs.target_section_index
        /\ ~SourceIndexInRange => source_content.raised
        /\ (~SourceIndexInRange \/ ~TargetIndexInRange) => ~txResult

\* C29 as stated: when replace_header_footer_content returns False, the
\* file at the output path has the content it had before the call, also
\* when the failure is one of writing the new container.
C29_FailureKeepsOutput ==
    (TxDone /\ ~txResult) =>
        disk[OutputPath(txArgs)] = disk0[OutputPath(txArgs)]

\* C30 as stated: split_document_for_conversion returns True only if both
\* sub-operations succeeded, and when it returns False neither the cover
\* output nor the content output was written.
C30_AllOrNothing ==
    pc = "done" =>
        /\ result => (cover.success /\ content.success)
        /\ ~result => (cover.out = NoFile /\ content.out = NoFile)

============================================================================
